---- MODULE Spec2Model ----
(***************************************************************************)
(* A model of solution.py: a 9x9 Sudoku solver (optionally with the two    *)
(* main diagonals as units) built from constraint propagation (eliminate,  *)
(* only_choice, naked_tuplets), the reduce_puzzle loop, and the recursive  *)
(* depth-first search.                                                     *)
(*                                                                         *)
(* Python strings are modelled as sequences of one-character strings, so   *)
(* '123' is <<"1","2","3">>; box names are the two-character strings "A1". *)
(* A board (a dict keyed by box, in insertion order = the order of boxes)  *)
(* is a function on the set of boxes that is iterated in the order of      *)
(* boxes.  The process-wide list `assignments` is only ever appended to    *)
(* and never read by the solver; it is modelled by its length.             *)
(***************************************************************************)
EXTENDS Integers, Sequences, FiniteSets, TLC

\* ------------------------------------------------------------------------
\* Encode the board.

RECURSIVE Flatten(_)
Flatten(ss) == IF ss = << >> THEN << >> ELSE Head(ss) \o Flatten(Tail(ss))

Range(s) == { s[i] : i \in 1..Len(s) }

\* [a + b for a in A for b in B]
cross(A, B) == Flatten([i \in 1..Len(A) |-> [j \in 1..Len(B) |-> A[i] \o B[j]]])

rows == <<"A", "B", "C", "D", "E", "F", "G", "H", "I">>
cols == <<"1", "2", "3", "4", "5", "6", "7", "8", "9">>
digits == <<"1", "2", "3", "4", "5", "6", "7", "8", "9">>

boxes == cross(rows, cols)
BoxSet == Range(boxes)

row_units == [i \in 1..Len(rows) |-> cross(<<rows[i]>>, cols)]
column_units == [j \in 1..Len(cols) |-> cross(rows, <<cols[j]>>)]
Bands == <<<<1, 2, 3>>, <<4, 5, 6>>, <<7, 8, 9>>>>
square_units ==
    Flatten([i \in 1..3 |-> [j \in 1..3 |->
        cross([k \in 1..3 |-> rows[Bands[i][k]]], [k \in 1..3 |-> cols[Bands[j][k]]])]])
diag_unit_1 == [i \in 1..Len(cols) |-> rows[i] \o cols[i]]
diag_unit_2 == [i \in 1..Len(cols) |-> rows[i] \o cols[Len(cols) + 1 - i]]
diag_units == <<diag_unit_1, diag_unit_2>>

\* units[s] = [u for u in unitlist if s in u];
\* peers[s] = set(sum(units[s], [])) - set([s])
PeersOf(ul) ==
    [s \in BoxSet |->
        UNION { Range(ul[i]) : i \in { k \in 1..Len(ul) : s \in Range(ul[k]) } } \ {s}]

unitlist_diagonal == row_units \o column_units \o square_units \o diag_units
unitlist_plain == row_units \o column_units \o square_units
peers_diagonal == PeersOf(unitlist_diagonal)
peers_plain == PeersOf(unitlist_plain)

VARIABLES
    unitlist,     \* module global, re-bound by solve
    peers,        \* module global, re-bound by solve
    assignments,  \* len(assignments), the process-wide log
    pc,           \* "idle" before solve is called, "running", "done"
    grid,         \* the argument of solve
    diagonal,     \* the argument of solve
    heap,         \* the dict objects alive, by identity
    stack,        \* the activation records of search, innermost last
    ret,          \* the value being returned by the frame that just ended
    result,       \* what solve returned or raised
    cur,          \* rule harness: the dict the rule is applied to, as mutated
    prev,         \* rule harness: that dict before the last application
    lastOp,       \* rule harness: the function applied last
    opN,          \* rule harness: its argument n (naked_tuplets), else 0
    ruleRet,      \* rule harness: "values", or "False" returned by reduce_puzzle
    calls         \* rule harness: the number of calls made on the dict

vars == <<unitlist, peers, assignments, pc, grid, diagonal, heap, stack, ret, result,
          cur, prev, lastOp, opN, ruleRet, calls>>
solveVars == <<pc, grid, diagonal, heap, stack, ret, result>>
ruleVars == <<cur, prev, lastOp, opN, ruleRet, calls>>

\* ------------------------------------------------------------------------
\* Keep track of intermediate states of the game.

\* A propagation state: the dict `values` being mutated and len(assignments).
\* assign_value: values[box] = value; if len(value) == 1: assignments.append(values.copy())
assign_value(st, box, value) ==
    [values |-> [st.values EXCEPT ![box] = value],
     log |-> IF Len(value) = 1 THEN st.log + 1 ELSE st.log]

\* str.replace(ch, '') for a one-character ch
replace(s, ch) == SelectSeq(s, LAMBDA c : c # ch)

\* `digit in value`
Contains(s, ch) == \E i \in 1..Len(s) : s[i] = ch

\* ------------------------------------------------------------------------
\* Implement strategy techniques.

\* Then(x, K) equals K(x); written so that x is evaluated before K is
\* entered (statement sequencing).
Then(x, K(_)) == CHOOSE r \in { K(s) : s \in {x} } : TRUE

\* A for loop over the indices lo..hi that threads the propagation state
\* through its body: st = Body(st, lo); ...; st = Body(st, hi).  The range is
\* split in halves only to keep the evaluation shallow; the iterations run
\* in the order of the loop.
RECURSIVE ForEach(_, _, _, _)
ForEach(Body(_, _), st, lo, hi) ==
    IF lo > hi THEN st
    ELSE IF lo = hi THEN Body(st, lo)
    ELSE Then(ForEach(Body, st, lo, (lo + hi) \div 2),
              LAMBDA s : ForEach(Body, s, (lo + hi) \div 2 + 1, hi))

\* peers[box] is a set; the order in which it is iterated does not affect
\* the resulting board or the number of log entries.
PeerSeq(box) == SelectSeq(boxes, LAMBDA p : p \in peers[box])

\* for peer in peers[box]: assign_value(values, peer, values[peer].replace(value, ''))
eliminate_peers(st, value, ps) ==
    ForEach(LAMBDA s, k : assign_value(s, ps[k], replace(s.values[ps[k]], value[1])),
            st, 1, Len(ps))

\* The body of `for box, value in values.items()`: value is read when the
\* item is reached.
eliminate_box(st, box) ==
    LET value == st.values[box]
    IN  IF Len(value) = 1 THEN eliminate_peers(st, value, PeerSeq(box)) ELSE st

eliminate(st) == ForEach(LAMBDA s, i : eliminate_box(s, boxes[i]), st, 1, Len(boxes))

\* only_choice_digit with `len(dplaces) >= 1` for `len(dplaces) == 1`.
only_choice_digit_any(st, unit, digit) ==
    LET dplaces == SelectSeq(unit, LAMBDA box : Contains(st.values[box], digit))
    IN  IF Len(dplaces) >= 1 THEN assign_value(st, dplaces[1], <<digit>>) ELSE st

\* The body of `for digit in '123456789'` in only_choice.
only_choice_digit(st, unit, digit) ==
    LET dplaces == SelectSeq(unit, LAMBDA box : Contains(st.values[box], digit))
    IN  IF Len(dplaces) = 1 THEN assign_value(st, dplaces[1], <<digit>>) ELSE st

only_choice_unit(st, unit) ==
    ForEach(LAMBDA s, d : only_choice_digit(s, unit, digits[d]), st, 1, Len(digits))

only_choice(st) ==
    ForEach(LAMBDA s, u : only_choice_unit(s, unitlist[u]), st, 1, Len(unitlist))

\* tuplet_peer that removes only the first digit of the shared value.
tuplet_peer_first(st, peer, box_value_1) ==
    assign_value(st, peer, replace(st.values[peer], box_value_1[1]))

\* for digit in box_value_1: assign_value(values, peer, values[peer].replace(digit, ''))
tuplet_peer(st, peer, box_value_1) ==
    ForEach(LAMBDA s, d : assign_value(s, peer, replace(s.values[peer], box_value_1[d])),
            st, 1, Len(box_value_1))

\* same_value = [box_1] + [box_2 for box_2 in potential_tuplets[i + 1:]
\*                         if values[box_2] == values[box_1]]
same_value_of(st, potential_tuplets, i) ==
    <<potential_tuplets[i]>> \o
    SelectSeq(SubSeq(potential_tuplets, i + 1, Len(potential_tuplets)),
              LAMBDA box_2 : st.values[box_2] = st.values[potential_tuplets[i]])

\* The body of `for i in range(len(potential_tuplets))`.
tuplet_candidate(st, unit, potential_tuplets, n, i) ==
    LET box_value_1 == st.values[potential_tuplets[i]]
        same_value == same_value_of(st, potential_tuplets, i)
        others == SelectSeq(unit, LAMBDA peer : peer \notin Range(same_value))
    IN  IF Len(same_value) = n
        THEN ForEach(LAMBDA s, k : tuplet_peer(s, others[k], box_value_1),
                     st, 1, Len(others))
        ELSE st

\* The body of `for unit in unitlist` in naked_tuplets.
naked_tuplets_unit(st, unit, n) ==
    LET potential_tuplets == SelectSeq(unit, LAMBDA box : Len(st.values[box]) = n)
    IN  IF Len(potential_tuplets) >= n
        THEN ForEach(LAMBDA s, i : tuplet_candidate(s, unit, potential_tuplets, n, i),
                     st, 1, Len(potential_tuplets))
        ELSE st

naked_tuplets(st, n) ==
    ForEach(LAMBDA s, u : naked_tuplets_unit(s, unitlist[u], n), st, 1, Len(unitlist))

naked_twins(st) == naked_tuplets(st, 2)

\* ------------------------------------------------------------------------
\* Implement constraint propagation and search.

\* The sanity check comparing the value with '0' instead of its length with 0.
HasZero(values) == \E box \in BoxSet : values[box] = <<"0">>

NumSolved(values) == Cardinality({ box \in BoxSet : Len(values[box]) = 1 })
HasEmpty(values) == \E box \in BoxSet : Len(values[box]) = 0

\* One iteration of the while loop of reduce_puzzle.
reduce_pass(st) == naked_twins(only_choice(eliminate(st)))

\* reduce_puzzle with an `if` for the `while`: a single pass.
reduce_once(st) ==
    LET after == reduce_pass(st)
    IN  [values |-> after.values, log |-> after.log,
         ret |-> IF HasEmpty(after.values) THEN "False" ELSE "values"]

\* Returns [values, log, ret]: ret is "False" or "values"; `values` is the
\* dict passed in, as mutated in place (also when False is returned).
RECURSIVE reduce_puzzle(_)
reduce_puzzle(st) ==
    LET solved_values_before == NumSolved(st.values)
        after == reduce_pass(st)
        solved_values_after == NumSolved(after.values)
        stalled == solved_values_before = solved_values_after
    IN  IF HasEmpty(after.values)
        THEN [values |-> after.values, log |-> after.log, ret |-> "False"]
        ELSE IF stalled
             THEN [values |-> after.values, log |-> after.log, ret |-> "values"]
             ELSE reduce_puzzle(after)


\* ------------------------------------------------------------------------
\* Encode the game.

\* The assertion with >= for ==.
grid_length_at_least(g) == Len(g) >= 81

\* assert len(grid) == 81
grid_length_ok(g) == Len(g) = 81

BoxIndex(box) == CHOOSE i \in 1..Len(boxes) : boxes[i] = box

\* {box: '123456789' if value == '.' else value
\*      for box in boxes for box, value in zip(boxes, grid)}
\* The inner loop re-binds box, so every round of the outer loop writes the
\* same items; zip stops at the shorter of boxes and grid; every character
\* other than '.' is kept as it is.
grid_values(g) ==
    [box \in { boxes[i] : i \in 1..(IF Len(g) < Len(boxes) THEN Len(g) ELSE Len(boxes)) } |->
        LET value == g[BoxIndex(box)]
        IN  IF value = "." THEN digits ELSE <<value>>]

\* ------------------------------------------------------------------------
\* search and solve, as a machine over the call stack of search.

\* Return values: a dict (by identity), False, or None (search falls off
\* its end); NoRet when no return is pending.
DictVal(ref) == [kind |-> "dict", ref |-> ref]
FalseVal == [kind |-> "False", ref |-> 0]
NoneVal == [kind |-> "None", ref |-> 0]
NoRet == [kind |-> "none", ref |-> 0]
Raised(e) == [kind |-> e, ref |-> 0]

\* `if attempt:` -- False and None are falsy, a dict of 81 items is truthy
Truthy(v) == v.kind = "dict"

\* An activation record of search: `values` (a reference), the position in
\* the function, the chosen box b, the string values[b] the for loop
\* iterates over and the loop's position in it.  `reduced` is a history
\* field: the content of `values` when b was chosen.
Frame(ref) ==
    [ref |-> ref, at |-> "reduce", b |-> "", iter |-> << >>, idx |-> 0, reduced |-> << >>]

Top == stack[Len(stack)]
SetTop(f) == [stack EXCEPT ![Len(stack)] = f]
Pop == SubSeq(stack, 1, Len(stack) - 1)

FreshRef(h) == CHOOSE r \in 1..(Cardinality(DOMAIN h) + 1) : r \notin DOMAIN h

\* new_sudoku = values: the same dict object under another name.
dict_alias(h, ref) == [heap |-> h, ref |-> ref]

\* new_sudoku = values.copy(): a new dict object with the same items
dict_copy(h, ref) ==
    LET new == FreshRef(h)
    IN  [heap |-> [r \in DOMAIN h \cup {new} |-> IF r = new THEN h[ref] ELSE h[r]],
         ref |-> new]

\* solve: re-bind the topology globals, then search(grid_values(grid)).
Solve(g, d) ==
    /\ pc = "idle"
    /\ grid' = g
    /\ diagonal' = d
    /\ unitlist' = IF d THEN unitlist_diagonal ELSE unitlist_plain
    /\ peers' = IF d THEN peers_diagonal ELSE peers_plain
    /\ IF grid_length_ok(g)
       THEN /\ heap' = [r \in {1} |-> grid_values(g)]
            /\ stack' = <<Frame(1)>>
            /\ pc' = "running"
            /\ result' = result
       ELSE /\ result' = Raised("AssertionError")
            /\ pc' = "done"
            /\ UNCHANGED <<heap, stack>>
    /\ UNCHANGED <<assignments, ret>>
    /\ UNCHANGED ruleVars

\* values = reduce_puzzle(values); if values is False: return False
SearchReduce ==
    /\ pc = "running" /\ stack # << >> /\ Top.at = "reduce"
    /\ LET r == reduce_puzzle([values |-> heap[Top.ref], log |-> assignments])
       IN  /\ heap' = [heap EXCEPT ![Top.ref] = r.values]
           /\ assignments' = r.log
           /\ IF r.ret = "False"
              THEN /\ stack' = Pop
                   /\ ret' = FalseVal
              ELSE /\ stack' = SetTop([Top EXCEPT !.at = "check"])
                   /\ ret' = ret
    /\ UNCHANGED <<unitlist, peers, pc, grid, diagonal, result>>
    /\ UNCHANGED ruleVars

\* search with any(...) for all(...).
AnySolved(values) == \E i \in 1..Len(boxes) : Len(values[boxes[i]]) = 1

AllSolved(values) == \A i \in 1..Len(boxes) : Len(values[boxes[i]]) = 1

\* if all(len(values[box]) == 1 for box in boxes): return values
SearchSolved ==
    /\ pc = "running" /\ stack # << >> /\ Top.at = "check"
    /\ AllSolved(heap[Top.ref])
    /\ stack' = Pop
    /\ ret' = DictVal(Top.ref)
    /\ UNCHANGED <<unitlist, peers, assignments, pc, grid, diagonal, heap, result>>
    /\ UNCHANGED ruleVars

\* n = min(len(values[box]) for box in boxes if len(values[box]) > 1)
MinLen(values) ==
    LET lens == { Len(values[box]) : box \in { x \in BoxSet : Len(values[x]) > 1 } }
    IN  CHOOSE n \in lens : \A m \in lens : n <= m

\* b = random.choice([box for box in boxes if len(values[box]) == n]);
\* then `for value in values[b]` starts to iterate over the string values[b].
SearchChoose ==
    /\ pc = "running" /\ stack # << >> /\ Top.at = "check"
    /\ ~AllSolved(heap[Top.ref])
    /\ LET values == heap[Top.ref]
           n == MinLen(values)
       IN  \E b \in { box \in BoxSet : Len(values[box]) = n } :
               stack' = SetTop([Top EXCEPT !.at = "loop", !.b = b, !.iter = values[b],
                                           !.idx = 1, !.reduced = values])
    /\ UNCHANGED <<unitlist, peers, assignments, pc, grid, diagonal, heap, ret, result>>
    /\ UNCHANGED ruleVars

\* new_sudoku = values.copy(); new_sudoku[b] = value; attempt = search(new_sudoku)
SearchBranch ==
    /\ pc = "running" /\ stack # << >> /\ Top.at = "loop"
    /\ Top.idx <= Len(Top.iter)
    /\ LET value == Top.iter[Top.idx]
           c == dict_copy(heap, Top.ref)
       IN  /\ heap' = [c.heap EXCEPT ![c.ref][Top.b] = <<value>>]
           /\ stack' = Append(SetTop([Top EXCEPT !.at = "wait"]), Frame(c.ref))
    /\ UNCHANGED <<unitlist, peers, assignments, pc, grid, diagonal, ret, result>>
    /\ UNCHANGED ruleVars

\* The for loop is exhausted and search falls off its end: it returns None.
SearchExhausted ==
    /\ pc = "running" /\ stack # << >> /\ Top.at = "loop"
    /\ Top.idx > Len(Top.iter)
    /\ stack' = Pop
    /\ ret' = NoneVal
    /\ UNCHANGED <<unitlist, peers, assignments, pc, grid, diagonal, heap, result>>
    /\ UNCHANGED ruleVars

\* if attempt: return attempt -- otherwise the loop goes on, and the child's
\* dict, which nothing refers to any more, is gone.
SearchResume ==
    /\ pc = "running" /\ stack # << >> /\ Top.at = "wait"
    /\ ret # NoRet
    /\ IF Truthy(ret)
       THEN /\ stack' = Pop
            /\ UNCHANGED <<ret, heap>>
       ELSE /\ stack' = SetTop([Top EXCEPT !.at = "loop", !.idx = @ + 1])
            /\ ret' = NoRet
            /\ heap' = [r \in { x \in DOMAIN heap :
                                  \E i \in 1..Len(stack) : stack[i].ref = x } |-> heap[r]]
    /\ UNCHANGED <<unitlist, peers, assignments, pc, grid, diagonal, result>>
    /\ UNCHANGED ruleVars

\* return search(grid_values(grid))
SolveReturn ==
    /\ pc = "running" /\ stack = << >>
    /\ result' = ret
    /\ pc' = "done"
    /\ UNCHANGED <<unitlist, peers, assignments, grid, diagonal, heap, stack, ret>>
    /\ UNCHANGED ruleVars


\* ------------------------------------------------------------------------
\* The calls of solve that are explored.

\* A complete grid that satisfies every unit, diagonals included.
GridFull ==
    <<"2", "6", "7", "9", "4", "5", "3", "8", "1">> \o
    <<"8", "5", "3", "7", "1", "6", "2", "4", "9">> \o
    <<"4", "9", "1", "8", "2", "3", "5", "7", "6">> \o
    <<"5", "7", "6", "4", "3", "8", "1", "9", "2">> \o
    <<"3", "8", "4", "1", "9", "2", "6", "5", "7">> \o
    <<"1", "2", "9", "6", "5", "7", "4", "3", "8">> \o
    <<"6", "4", "2", "3", "7", "9", "8", "1", "5">> \o
    <<"9", "3", "5", "2", "8", "1", "7", "6", "4">> \o
    <<"7", "1", "8", "5", "6", "4", "9", "2", "3">>

\* GridFull with 32 boxes blanked: with the diagonals it is solved by
\* propagation alone; without them propagation stalls on four boxes and
\* search has to branch.
GridRect ==
    <<"2", ".", "7", ".", "4", "5", ".", "8", "1">> \o
    <<"8", ".", ".", "7", ".", ".", "2", "4", "9">> \o
    <<"4", "9", ".", "8", "2", "3", ".", "7", "6">> \o
    <<".", "7", "6", "4", ".", "8", "1", "9", ".">> \o
    <<"3", "8", "4", "1", "9", "2", "6", "5", "7">> \o
    <<".", "2", ".", ".", ".", "7", ".", ".", "8">> \o
    <<"6", ".", "2", "3", ".", ".", ".", "1", "5">> \o
    <<"9", "3", "5", "2", ".", "1", ".", ".", "4">> \o
    <<"7", "1", "8", "5", ".", "4", "9", "2", "3">>

\* A grid with no solution that propagation does not refute: in row A the
\* boxes A1..A4 are left with the candidates 12, 23, 13 and 123.
GridUnsolvable ==
    <<".", ".", ".", ".", "4", "5", "6", "7", "8">> \o
    <<"9", ".", ".", ".", ".", ".", ".", ".", ".">> \o
    <<".", ".", ".", ".", "9", ".", ".", ".", ".">> \o
    <<"3", ".", ".", ".", ".", ".", ".", ".", ".">> \o
    <<".", "1", ".", ".", ".", ".", ".", ".", ".">> \o
    <<".", ".", "2", ".", ".", ".", ".", ".", ".">> \o
    <<".", ".", ".", ".", ".", ".", ".", ".", ".">> \o
    <<".", ".", ".", ".", ".", ".", ".", ".", ".">> \o
    <<".", ".", ".", ".", ".", ".", ".", ".", ".">>

BaseGrids == <<GridFull, GridRect, GridUnsolvable>>

\* The base grids are also tried with one character replaced, at one of
\* the first NumPerturb positions of PerturbPos: by another digit, by a
\* blank, and by a character that is neither.
NumPerturb == 2
PerturbPos == <<81, 80, 79, 78>>
PerturbChars == <<"5", ".", "0">>

PerturbedGrids ==
    { [BaseGrids[k] EXCEPT ![PerturbPos[i]] = PerturbChars[c]] :
        k \in 1..Len(BaseGrids),
        i \in 1..(IF NumPerturb < Len(PerturbPos) THEN NumPerturb ELSE Len(PerturbPos)),
        c \in 1..Len(PerturbChars) }

\* Strings of a length other than 81.
MalformedGrids ==
    { SubSeq(BaseGrids[k], 1, 80) : k \in 1..Len(BaseGrids) } \cup
    { Append(BaseGrids[k], ".") : k \in 1..Len(BaseGrids) } \cup
    { << >> }

SolveGrids == Range(BaseGrids) \cup PerturbedGrids \cup MalformedGrids

\* The module as loaded: the topology with the diagonals, an empty log.
Init ==
    /\ unitlist = unitlist_diagonal
    /\ peers = peers_diagonal
    /\ assignments = 0
    /\ pc = "idle"
    /\ grid = << >>
    /\ diagonal = TRUE
    /\ heap = << >>
    /\ stack = << >>
    /\ ret = NoRet
    /\ result = NoRet
    /\ cur = << >>
    /\ prev = << >>
    /\ lastOp = "none"
    /\ opN = 0
    /\ ruleRet = "values"
    /\ calls = 0

Next ==
    \/ \E g \in SolveGrids, d \in BOOLEAN : Solve(g, d)
    \/ SearchReduce
    \/ SearchSolved
    \/ SearchChoose
    \/ SearchBranch
    \/ SearchExhausted
    \/ SearchResume
    \/ SolveReturn

Spec == Init /\ [][Next]_vars

\* ------------------------------------------------------------------------
\* Calls of the propagation functions on a dict, outside solve: one call of
\* eliminate, only_choice, naked_twins, naked_tuplets or reduce_puzzle on a
\* board, and reduce_puzzle again on the dict it returned.

\* A puzzle cut from GridFull on which reduce_puzzle stops with a pass that
\* still removed candidates.
GridTwice ==
    <<".", ".", ".", ".", ".", "5", ".", ".", ".">> \o
    <<"8", ".", ".", "7", "1", ".", ".", ".", ".">> \o
    <<"4", "9", ".", "8", ".", ".", ".", ".", "6">> \o
    <<".", ".", ".", "4", ".", "8", ".", ".", "2">> \o
    <<"3", ".", ".", "1", "9", ".", ".", "5", "7">> \o
    <<".", ".", ".", ".", ".", "7", ".", ".", "8">> \o
    <<".", ".", ".", "3", ".", ".", ".", ".", ".">> \o
    <<".", ".", ".", ".", ".", ".", ".", ".", ".">> \o
    <<".", "1", ".", ".", ".", ".", ".", "2", ".">>

\* GridFull with B7 changed from 2 to 3 and five boxes blanked: no box is
\* emptied before the second pass of reduce_puzzle.
GridLate ==
    <<".", "6", "7", "9", "4", "5", ".", "8", "1">> \o
    <<"8", "5", ".", "7", "1", "6", "3", "4", "9">> \o
    <<"4", "9", "1", "8", "2", "3", "5", "7", "6">> \o
    <<"5", "7", "6", "4", "3", "8", "1", "9", "2">> \o
    <<"3", "8", "4", "1", "9", "2", "6", "5", "7">> \o
    <<"1", "2", "9", "6", "5", "7", "4", "3", "8">> \o
    <<"6", "4", ".", "3", "7", "9", "8", "1", "5">> \o
    <<"9", "3", "5", "2", "8", "1", "7", "6", "4">> \o
    <<"7", "1", ".", "5", "6", "4", "9", "2", "3">>

\* A complete grid that satisfies the rows, columns and squares, but not the
\* diagonals.
GridPlain ==
    <<"4", "8", "3", "9", "2", "1", "6", "5", "7">> \o
    <<"9", "6", "7", "3", "4", "5", "8", "2", "1">> \o
    <<"2", "5", "1", "8", "7", "6", "4", "9", "3">> \o
    <<"5", "4", "8", "1", "3", "2", "9", "7", "6">> \o
    <<"7", "2", "9", "5", "6", "4", "1", "3", "8">> \o
    <<"1", "3", "6", "7", "9", "8", "2", "4", "5">> \o
    <<"3", "7", "2", "6", "8", "9", "5", "1", "4">> \o
    <<"8", "1", "4", "2", "5", "3", "7", "6", "9">> \o
    <<"6", "9", "5", "4", "1", "7", "3", "8", "2">>

RuleGrids ==
    { g \in SolveGrids : Len(g) = Len(boxes) } \cup {GridTwice, GridLate, GridPlain}

\* Boards that are blank but for the boxes of RuleCells, each of which holds
\* one of the first NumCand strings of CandChoices.
RuleCells == <<"A1", "A2", "A3", "D3">>
CandChoices == <<digits, <<"2", "6">>, <<"6", "7">>, <<"2">>, <<"2", "6", "7">>, <<"6">>>>
NumCand == 4

CellIndex(box) == CHOOSE k \in 1..Len(RuleCells) : RuleCells[k] = box

SeededBoards ==
    { [box \in BoxSet |->
          IF box \in Range(RuleCells) THEN CandChoices[f[CellIndex(box)]] ELSE digits] :
        f \in [1..Len(RuleCells) ->
                  1..(IF NumCand < Len(CandChoices) THEN NumCand ELSE Len(CandChoices))] }

RuleBoards == { grid_values(g) : g \in RuleGrids } \cup SeededBoards

\* naked_tuplets is called with n from 2 to MaxTuplet; reduce_puzzle is
\* called on the same dict at most MaxReduce times.
MaxTuplet == 2
MaxReduce == 2

Ran(name, n, r, rv) ==
    /\ prev' = cur
    /\ cur' = r.values
    /\ assignments' = r.log
    /\ lastOp' = name
    /\ opN' = n
    /\ ruleRet' = rv
    /\ calls' = calls + 1
    /\ UNCHANGED <<unitlist, peers>>
    /\ UNCHANGED solveVars

RuleEliminate ==
    /\ pc = "rule" /\ calls = 0
    /\ Ran("eliminate", 0, eliminate([values |-> cur, log |-> assignments]), "values")

RuleOnlyChoice ==
    /\ pc = "rule" /\ calls = 0
    /\ Ran("only_choice", 0, only_choice([values |-> cur, log |-> assignments]), "values")

RuleNakedTwins ==
    /\ pc = "rule" /\ calls = 0
    /\ Ran("naked_twins", 2, naked_twins([values |-> cur, log |-> assignments]), "values")

\* assert n <= 8
RuleNakedTuplets(n) ==
    /\ pc = "rule" /\ calls = 0
    /\ IF n <= 8
       THEN Ran("naked_tuplets", n,
                naked_tuplets([values |-> cur, log |-> assignments], n), "values")
       ELSE Ran("naked_tuplets", n, [values |-> cur, log |-> assignments],
                "AssertionError")

\* values = reduce_puzzle(values), on a fresh board or on the dict that the
\* previous call of reduce_puzzle returned.
RuleReducePuzzle ==
    /\ pc = "rule" /\ calls < MaxReduce
    /\ calls > 0 => (lastOp = "reduce_puzzle" /\ ruleRet = "values")
    /\ LET r == reduce_puzzle([values |-> cur, log |-> assignments])
       IN  Ran("reduce_puzzle", 0, r, r.ret)

\* The module as loaded (the topology with the diagonals), or as a call of
\* solve without the diagonals has left it; a board about to be passed to a
\* propagation function.
RuleInit ==
    /\ diagonal \in BOOLEAN
    /\ unitlist = IF diagonal THEN unitlist_diagonal ELSE unitlist_plain
    /\ peers = IF diagonal THEN peers_diagonal ELSE peers_plain
    /\ assignments = 0
    /\ pc = "rule"
    /\ grid = << >>
    /\ heap = << >>
    /\ stack = << >>
    /\ ret = NoRet
    /\ result = NoRet
    /\ cur \in RuleBoards
    /\ prev = cur
    /\ lastOp = "none"
    /\ opN = 0
    /\ ruleRet = "values"
    /\ calls = 0

RuleNext ==
    \/ RuleEliminate
    \/ RuleOnlyChoice
    \/ RuleNakedTwins
    \/ \E n \in 2..MaxTuplet : RuleNakedTuplets(n)
    \/ RuleReducePuzzle

RuleSpec == RuleInit /\ [][RuleNext]_vars

\* ------------------------------------------------------------------------
\* The properties checked.

\* The characters of a grid: the digits, and '.' for a blank.
GridChars == Range(digits) \cup {"."}
WellFormed(g) == \A i \in 1..Len(g) : g[i] \in GridChars

\* The groups that are active for the diagonal setting passed to solve.
ActiveUnits == IF diagonal THEN unitlist_diagonal ELSE unitlist_plain

Complete(values) ==
    \A box \in BoxSet : Len(values[box]) = 1 /\ values[box][1] \in Range(digits)

EachDigitOnce(values, unit) ==
    \A d \in Range(digits) :
        Cardinality({ i \in 1..Len(unit) : values[unit[i]] = <<d>> }) = 1

ValidBoard(values, ul) ==
    Complete(values) /\ \A u \in 1..Len(ul) : EachDigitOnce(values, ul[u])

Returned == pc = "done" /\ result.kind = "dict"

\* C1 (as stated): for every grid of 81 characters, a board returned by solve
\* has exactly one digit in every cell and each digit exactly once in every
\* active group.
C1_AnyGridReturnsValidBoard == Returned => ValidBoard(heap[result.ref], ActiveUnits)

\* C1 (amended): for every grid of 81 characters over the digits and '.', a
\* board returned by solve has exactly one digit in every cell and each digit
\* exactly once in every active group (rows, columns, squares, and the two
\* diagonals iff diagonal is set).
C1_ReturnedBoardValid ==
    (Returned /\ WellFormed(grid)) => ValidBoard(heap[result.ref], ActiveUnits)

\* solve returned a board that search reached by branching, for a grid with
\* blanks.
C1_BoardFoundBySearch ==
    /\ Returned /\ WellFormed(grid)
    /\ result.ref # 1
    /\ \E i \in 1..Len(grid) : grid[i] = "."

\* C3: the no-solution outcome of solve is the value False, whether
\* reduce_puzzle signalled the contradiction or every candidate digit of the
\* chosen cell led to an unsolvable child.
C3_NoSolutionIsFalse ==
    (pc = "done" /\ result.kind \notin {"dict", "AssertionError"}) => result = FalseVal

C8_WrongLengthRejected ==
    (pc # "idle" /\ Len(grid) # 81)
        => /\ pc = "done"
           /\ result = Raised("AssertionError")
           /\ heap = << >> /\ stack = << >>
           /\ assignments = 0

\* solve was called with a string of 82 characters and has raised.
C8_LongGridRejected ==
    pc = "done" /\ Len(grid) = 82 /\ result.kind = "AssertionError"

\* C9: while a node of search iterates over the candidate digits of its
\* chosen cell, its board is the reduced state it had when the cell was
\* chosen, whatever the children did; and each child starts from that state
\* with only the chosen cell replaced by the candidate digit.
C9_ParentBoardUnchanged ==
    \A i \in 1..Len(stack) :
        /\ stack[i].at \in {"loop", "wait"} => heap[stack[i].ref] = stack[i].reduced
        /\ (stack[i].at = "wait" /\ i < Len(stack) /\ stack[i + 1].at = "reduce")
              => /\ stack[i + 1].ref # stack[i].ref
                 /\ heap[stack[i + 1].ref] =
                        [stack[i].reduced EXCEPT ![stack[i].b] = <<stack[i].iter[stack[i].idx]>>]

\* A second child is about to start after the first one failed.
C9_SecondChildStarts ==
    \E i \in 1..Len(stack) :
        /\ stack[i].at = "wait" /\ stack[i].idx > 1
        /\ i < Len(stack) /\ stack[i + 1].at = "reduce"

\* ---- Properties of the propagation functions (checked under RuleSpec).

\* Complete assignments known to satisfy the groups.
KnownSolutions == { grid_values(GridFull), grid_values(GridPlain) }

\* The assignment picks each cell's digit among the cell's candidates.
Fits(sol, values) == \A box \in BoxSet : Contains(values[box], sol[box][1])

\* C2: a complete assignment that satisfies all active groups and fits the
\* board passed to a propagation function still fits the board the function
\* leaves, and reduce_puzzle does not signal a contradiction for that board.
C2_PropagationSound ==
    calls > 0 =>
        \A sol \in KnownSolutions :
            (ValidBoard(sol, unitlist) /\ Fits(sol, prev))
                => (ruleRet = "values" /\ Fits(sol, cur))

\* reduce_puzzle removed candidates from a board that a solution fits.
C2_ReducedSolvableBoard ==
    /\ lastOp = "reduce_puzzle" /\ calls = 1
    /\ \E sol \in KnownSolutions : ValidBoard(sol, unitlist) /\ Fits(sol, prev)
    /\ cur # prev
    /\ ~AllSolved(prev)

PeerConflict(values) ==
    \E b1 \in BoxSet : \E b2 \in peers[b1] :
        Len(values[b1]) = 1 /\ values[b2] = values[b1]

\* C4: reduce_puzzle returns the no-solution signal for every board in which
\* two peers hold the same single digit.
C4_PeerConflictRejected ==
    (lastOp = "reduce_puzzle" /\ PeerConflict(prev)) => ruleRet = "False"

\* reduce_puzzle was given a board with two equal solved peers and unsolved
\* cells.
C4_ConflictBoardReduced ==
    /\ lastOp = "reduce_puzzle" /\ PeerConflict(prev)
    /\ \E box \in BoxSet : Len(prev[box]) > 1

ReducedAgain == lastOp = "reduce_puzzle" /\ calls > 1

Refines(new, old) == \A box \in BoxSet : Range(new[box]) \subseteq Range(old[box])

\* C5 (as stated): reduce_puzzle applied to a state it returned returns that
\* state unchanged.
C5_ReduceIdempotent == ReducedAgain => (ruleRet = "values" /\ cur = prev)

\* C5 (amended): reduce_puzzle applied to a state T it returned never adds a
\* candidate (every cell's candidates in the result are among its candidates
\* in T; it may remove some, or signal a contradiction), and it returns T
\* unchanged when T is complete.
C5_ReduceAgainRefines ==
    ReducedAgain =>
        /\ Refines(cur, prev)
        /\ AllSolved(prev) => (ruleRet = "values" /\ cur = prev)

\* reduce_puzzle was applied again to a complete board it had reached from a
\* board with blanks.
C5_CompleteReducedAgain ==
    ReducedAgain /\ calls = 2 /\ AllSolved(prev) /\ cur = prev /\ assignments > 81

NakedTwinsRan == lastOp = "naked_twins" \/ (lastOp = "naked_tuplets" /\ opN = 2)

\* The boxes at positions i < j of the unit are the only two of the unit that
\* hold their 2-digit candidate set.
TwinsAt(values, unit, i, j) ==
    /\ i < j
    /\ Len(values[unit[i]]) = 2
    /\ { k \in 1..Len(unit) : values[unit[k]] = values[unit[i]] } = {i, j}

NoneElsewhere(values, unit, i, j, twin) ==
    \A k \in 1..Len(unit) \ {i, j} :
        \A d \in 1..Len(twin) : ~Contains(values[unit[k]], twin[d])

\* C6 (as stated): for every group in which exactly two cells hold the same
\* 2-digit candidate set on entry to naked_twins, on return neither digit is
\* a candidate of another cell of the group and the two cells are unchanged.
C6_TwinsKeptAndEliminated ==
    NakedTwinsRan =>
        \A u \in 1..Len(unitlist) : \A i, j \in 1..Len(unitlist[u]) :
            TwinsAt(prev, unitlist[u], i, j) =>
                /\ cur[unitlist[u][i]] = prev[unitlist[u][i]]
                /\ cur[unitlist[u][j]] = prev[unitlist[u][j]]
                /\ NoneElsewhere(cur, unitlist[u], i, j, prev[unitlist[u][i]])

\* C6 (amended): for every group in which exactly two cells hold the same
\* 2-digit candidate set on entry to naked_twins, if both cells still hold
\* it on return then neither digit is a candidate of another cell of the
\* group.
C6_UnchangedTwinsEliminated ==
    NakedTwinsRan =>
        \A u \in 1..Len(unitlist) : \A i, j \in 1..Len(unitlist[u]) :
            (/\ TwinsAt(prev, unitlist[u], i, j)
             /\ cur[unitlist[u][i]] = prev[unitlist[u][i]]
             /\ cur[unitlist[u][j]] = prev[unitlist[u][j]])
                => NoneElsewhere(cur, unitlist[u], i, j, prev[unitlist[u][i]])

\* naked_twins ran on a board with twins in a group, kept them and removed
\* a digit of theirs from another cell of the group.
C6_TwinsEliminated ==
    /\ lastOp = "naked_twins"
    /\ \E u \in 1..Len(unitlist) : \E i, j \in 1..Len(unitlist[u]) :
          /\ TwinsAt(prev, unitlist[u], i, j)
          /\ cur[unitlist[u][i]] = prev[unitlist[u][i]]
          /\ cur[unitlist[u][j]] = prev[unitlist[u][j]]
          /\ \E k \in 1..Len(unitlist[u]) : cur[unitlist[u][k]] # prev[unitlist[u][k]]

\* The number of cells of the unit that hold the candidate set `value`.
Sharers(values, unit, value) ==
    Cardinality({ k \in 1..Len(unit) : values[unit[k]] = value })

\* C10: naked_tuplets(n) removes digits only on account of an n-digit
\* candidate set that exactly n cells of a group hold; a board in which no
\* group has such a set (a set held by more than n cells does not count) is
\* left unchanged.
C10_OnlyExactTupletsEliminate ==
    (lastOp \in {"naked_twins", "naked_tuplets"} /\ ruleRet = "values")
        => ((\A u \in 1..Len(unitlist) : \A k \in 1..Len(unitlist[u]) :
                 Len(prev[unitlist[u][k]]) = opN
                     => Sharers(prev, unitlist[u], prev[unitlist[u][k]]) # opN)
            => cur = prev)

====
